---- MODULE Spec2Model ----
(***************************************************************************)
(* AI Wargame (ai_wargame_skeleton.py): the board rules engine             *)
(* (legality predicates and the four action resolvers), the winner check,  *)
(* the move generator, the heuristics, the minimax search with its         *)
(* counters, and the game loop that drives them.                           *)
(*                                                                         *)
(* A game is the record                                                    *)
(*   [board, next_player, turns_played, attacker_has_ai, defender_has_ai]  *)
(* (the fields of class Game; _attacker_has_ai and _defender_has_ai lose   *)
(* their leading underscore).  A Coord is the tuple <<row, col>>, a         *)
(* CoordPair the record [src, dst].  A cell of the board holds a Unit      *)
(* record [player, type, health] or None.                                  *)
(***************************************************************************)
EXTENDS Integers, Sequences, FiniteSets, TLC

\* ------------------------------------------------------------------ data

\* Options.dim: the board is Dim x Dim
Dim == 5

\* Python's None for an empty cell / a missing move / no winner
None == [player |-> "None", type |-> "None", health |-> 0]
NoMove == [src |-> <<-9, -9>>, dst |-> <<-9, -9>>]
NoPlayer == "None"

Attacker == "Attacker"
Defender == "Defender"
Player == {Attacker, Defender}

UnitType == {"AI", "Tech", "Virus", "Program", "Firewall"}

\* UnitType.value, shifted by one to index the 1-based table rows
TypeIndex(t) ==
    CASE t = "AI" -> 1
      [] t = "Tech" -> 2
      [] t = "Virus" -> 3
      [] t = "Program" -> 4
      [] t = "Firewall" -> 5

\* Player.next
PlayerNext(p) == IF p = Attacker THEN Defender ELSE Attacker

\* Unit.damage_table
damage_table ==
    << <<3, 3, 3, 3, 1>>,
       <<1, 1, 6, 1, 1>>,
       <<9, 6, 1, 6, 1>>,
       <<3, 3, 3, 3, 1>>,
       <<1, 1, 1, 1, 1>> >>

\* Unit.repair_table
repair_table ==
    << <<0, 1, 1, 0, 0>>,
       <<3, 0, 0, 3, 3>>,
       <<0, 0, 0, 0, 0>>,
       <<0, 0, 0, 0, 0>>,
       <<0, 0, 0, 0, 0>> >>

Unit(p, t, h) == [player |-> p, type |-> t, health |-> h]

\* ------------------------------------------------------------------ Unit

\* Unit.is_alive
is_alive(unit) == unit.health > 0

\* mod_health that clamps at 0 only
unit_mod_health_no_cap(unit, health_delta) ==
    LET h == unit.health + health_delta
    IN  [unit EXCEPT !.health = IF h < 0 THEN 0 ELSE h]

\* Unit.mod_health: add the delta, clamp to 0..9
unit_mod_health(unit, health_delta) ==
    LET h == unit.health + health_delta
    IN  [unit EXCEPT !.health = IF h < 0 THEN 0 ELSE IF h > 9 THEN 9 ELSE h]

\* Unit.damage_amount
damage_amount(unit, target) ==
    LET amount == damage_table[TypeIndex(unit.type)][TypeIndex(target.type)]
    IN  IF target.health - amount < 0 THEN target.health ELSE amount

\* Unit.repair_amount
repair_amount(unit, target) ==
    LET amount == repair_table[TypeIndex(unit.type)][TypeIndex(target.type)]
    IN  IF target.health + amount > 9 THEN 9 - target.health ELSE amount

\* ----------------------------------------------------------------- Coord

Coords == (0 .. Dim - 1) \X (0 .. Dim - 1)

\* Coord.iter_range(dist): the rectangle centred on coord, row by row
iter_range(coord, dist) ==
    LET w == 2 * dist + 1
    IN  [i \in 1 .. w * w |->
            << coord[1] - dist + ((i - 1) \div w),
               coord[2] - dist + ((i - 1) % w) >>]

\* Coord.iter_adjacent: up, left, down, right
iter_adjacent(coord) ==
    << <<coord[1] - 1, coord[2]>>,
       <<coord[1], coord[2] - 1>>,
       <<coord[1] + 1, coord[2]>>,
       <<coord[1], coord[2] + 1>> >>

CoordPair(s, d) == [src |-> s, dst |-> d]

\* ------------------------------------------------------------------ Game

\* Game.is_valid_coord
is_valid_coord(coord) ==
    ~(coord[1] < 0 \/ coord[1] >= Dim \/ coord[2] < 0 \/ coord[2] >= Dim)

\* Game.get: bounds-checked read, None out of bounds
get(g, coord) == IF is_valid_coord(coord) THEN g.board[coord] ELSE None

\* Game.set: bounds-checked write, a no-op out of bounds
set(g, coord, unit) ==
    IF is_valid_coord(coord)
    THEN [g EXCEPT !.board = [g.board EXCEPT ![coord] = unit]]
    ELSE g

\* remove_dead without the AI-alive flag update
remove_dead_keep_flag(g, coord) ==
    LET unit == get(g, coord)
    IN  IF unit # None /\ ~is_alive(unit) THEN set(g, coord, None) ELSE g

\* Game.remove_dead
remove_dead(g, coord) ==
    LET unit == get(g, coord)
    IN  IF unit # None /\ ~is_alive(unit)
        THEN LET g1 == set(g, coord, None)
             IN  IF unit.type = "AI"
                 THEN IF unit.player = Attacker
                      THEN [g1 EXCEPT !.attacker_has_ai = FALSE]
                      ELSE [g1 EXCEPT !.defender_has_ai = FALSE]
                 ELSE g1
        ELSE g

\* mod_health without the removal of a dead unit
mod_health_keep_dead(g, coord, health_delta) ==
    LET target == get(g, coord)
    IN  IF target # None
        THEN set(g, coord, unit_mod_health(target, health_delta))
        ELSE g

\* Game.mod_health: the unit at coord is modified in place, then remove_dead
mod_health(g, coord, health_delta) ==
    LET target == get(g, coord)
    IN  IF target # None
        THEN remove_dead(set(g, coord, unit_mod_health(target, health_delta)), coord)
        ELSE g

\* Game.is_adjacent
is_adjacent(src, dst) ==
    LET abs(x) == IF x < 0 THEN -x ELSE x
    IN  \/ (src[1] = dst[1] /\ abs(src[2] - dst[2]) = 1)
        \/ (src[2] = dst[2] /\ abs(src[1] - dst[1]) = 1)

\* Game.is_engaged_in_combat
is_engaged_in_combat(g, coord) ==
    \E i \in 1 .. 4 :
        LET adj_unit == iter_adjacent(coord)[i]
        IN  /\ is_valid_coord(adj_unit)
            /\ get(g, adj_unit) # None
            /\ get(g, adj_unit).player # get(g, coord).player

\* Game.is_move_down / is_move_right / is_move_up / is_move_left
is_move_down(coords) == <<coords.src[1] + 1, coords.src[2]>> = coords.dst
is_move_right(coords) == <<coords.src[1], coords.src[2] + 1>> = coords.dst
is_move_up(coords) == <<coords.src[1] - 1, coords.src[2]>> = coords.dst
is_move_left(coords) == <<coords.src[1], coords.src[2] - 1>> = coords.dst

IsRestrictedType(t) == t = "AI" \/ t = "Firewall" \/ t = "Program"

\* is_valid_move that applies the Attacker's direction rule to both players
is_valid_move_one_rule(g, coords) ==
    IF ~is_valid_coord(coords.src) \/ ~is_valid_coord(coords.dst) THEN FALSE
    ELSE LET unit == get(g, coords.src)
         IN  IF unit = None \/ unit.player # g.next_player THEN FALSE
             ELSE IF ~is_adjacent(coords.src, coords.dst) THEN FALSE
             ELSE IF IsRestrictedType(unit.type) /\ is_engaged_in_combat(g, coords.src)
                  THEN FALSE
             ELSE IF /\ IsRestrictedType(unit.type)
                     /\ (is_move_down(coords) \/ is_move_right(coords))
                  THEN FALSE
             ELSE get(g, coords.dst) = None

\* is_valid_move that applies the engagement rule to every unit type
is_valid_move_all_engaged(g, coords) ==
    IF ~is_valid_coord(coords.src) \/ ~is_valid_coord(coords.dst) THEN FALSE
    ELSE LET unit == get(g, coords.src)
         IN  IF unit = None \/ unit.player # g.next_player THEN FALSE
             ELSE IF ~is_adjacent(coords.src, coords.dst) THEN FALSE
             ELSE IF is_engaged_in_combat(g, coords.src) THEN FALSE
             ELSE IF /\ unit.player = Attacker
                     /\ IsRestrictedType(unit.type)
                     /\ (is_move_down(coords) \/ is_move_right(coords))
                  THEN FALSE
             ELSE IF /\ unit.player = Defender
                     /\ IsRestrictedType(unit.type)
                     /\ (is_move_up(coords) \/ is_move_left(coords))
                  THEN FALSE
             ELSE get(g, coords.dst) = None

\* is_valid_move without the check that the destination is empty
is_valid_move_onto_units(g, coords) ==
    IF ~is_valid_coord(coords.src) \/ ~is_valid_coord(coords.dst) THEN FALSE
    ELSE LET unit == get(g, coords.src)
         IN  IF unit = None \/ unit.player # g.next_player THEN FALSE
             ELSE IF ~is_adjacent(coords.src, coords.dst) THEN FALSE
             ELSE IF IsRestrictedType(unit.type) /\ is_engaged_in_combat(g, coords.src)
                  THEN FALSE
             ELSE IF /\ unit.player = Attacker
                     /\ IsRestrictedType(unit.type)
                     /\ (is_move_down(coords) \/ is_move_right(coords))
                  THEN FALSE
             ELSE IF /\ unit.player = Defender
                     /\ IsRestrictedType(unit.type)
                     /\ (is_move_up(coords) \/ is_move_left(coords))
                  THEN FALSE
             ELSE TRUE

\* Game.is_valid_move
is_valid_move(g, coords) ==
    IF ~is_valid_coord(coords.src) \/ ~is_valid_coord(coords.dst) THEN FALSE
    ELSE LET unit == get(g, coords.src)
         IN  IF unit = None \/ unit.player # g.next_player THEN FALSE
             ELSE IF ~is_adjacent(coords.src, coords.dst) THEN FALSE
             ELSE IF IsRestrictedType(unit.type) /\ is_engaged_in_combat(g, coords.src)
                  THEN FALSE
             ELSE IF /\ unit.player = Attacker
                     /\ IsRestrictedType(unit.type)
                     /\ (is_move_down(coords) \/ is_move_right(coords))
                  THEN FALSE
             ELSE IF /\ unit.player = Defender
                     /\ IsRestrictedType(unit.type)
                     /\ (is_move_up(coords) \/ is_move_left(coords))
                  THEN FALSE
             ELSE get(g, coords.dst) = None

\* is_valid_to_attack without the check that the target is an adversary
is_valid_to_attack_own_side(g, coords) ==
    LET src_unit == get(g, coords.src)
        dst_unit == get(g, coords.dst)
    IN  /\ src_unit # None
        /\ dst_unit # None
        /\ is_adjacent(coords.src, coords.dst)
        /\ src_unit.player = g.next_player

\* Game.is_valid_to_attack
is_valid_to_attack(g, coords) ==
    LET src_unit == get(g, coords.src)
        dst_unit == get(g, coords.dst)
    IN  /\ src_unit # None
        /\ dst_unit # None
        /\ is_adjacent(coords.src, coords.dst)
        /\ src_unit.player = g.next_player
        /\ src_unit.player # dst_unit.player

\* is_valid_to_repair without the check of whose turn it is
is_valid_to_repair_any_turn(g, coords) ==
    LET src_unit == get(g, coords.src)
        dst_unit == get(g, coords.dst)
    IN  /\ src_unit # None
        /\ dst_unit # None
        /\ is_adjacent(coords.src, coords.dst)
        /\ src_unit.player = dst_unit.player
        /\ repair_amount(src_unit, dst_unit) # 0
        /\ dst_unit.health < 9

\* Game.is_valid_to_repair
is_valid_to_repair(g, coords) ==
    LET src_unit == get(g, coords.src)
        dst_unit == get(g, coords.dst)
    IN  /\ src_unit # None
        /\ dst_unit # None
        /\ is_adjacent(coords.src, coords.dst)
        /\ src_unit.player = g.next_player
        /\ src_unit.player = dst_unit.player
        /\ repair_amount(src_unit, dst_unit) # 0
        /\ dst_unit.health < 9

\* is_valid_to_self_destruct without the check of whose unit it is
is_valid_to_self_destruct_anyone(g, coords) ==
    get(g, coords.src) # None /\ coords.src = coords.dst

\* Game.is_valid_to_self_destruct
is_valid_to_self_destruct(g, coords) ==
    LET src_unit == get(g, coords.src)
    IN  IF src_unit # None /\ src_unit.player = g.next_player
        THEN coords.src = coords.dst
        ELSE FALSE

\* attack resolved in sequence: a source that died deals no damage
attack_sequential(g, coords) ==
    LET src_unit == get(g, coords.src)
        dst_unit == get(g, coords.dst)
        g1 == mod_health(g, coords.src, -damage_amount(dst_unit, src_unit))
    IN  IF get(g1, coords.src) = None THEN g1
        ELSE mod_health(g1, coords.dst, -damage_amount(src_unit, dst_unit))

\* Game.attack: both amounts are computed first, then applied src first
attack(g, coords) ==
    LET src_unit == get(g, coords.src)
        dst_unit == get(g, coords.dst)
        attack_amount_src_to_dst == damage_amount(src_unit, dst_unit)
        attack_amount_dst_to_src == damage_amount(dst_unit, src_unit)
        g1 == mod_health(g, coords.src, -attack_amount_dst_to_src)
    IN  mod_health(g1, coords.dst, -attack_amount_src_to_dst)

\* repair applied to the repairing unit
repair_source(g, coords) ==
    LET src_unit == get(g, coords.src)
        dst_unit == get(g, coords.dst)
    IN  mod_health(g, coords.src, repair_amount(src_unit, dst_unit))

\* Game.repair
repair(g, coords) ==
    LET src_unit == get(g, coords.src)
        dst_unit == get(g, coords.dst)
    IN  mod_health(g, coords.dst, repair_amount(src_unit, dst_unit))

RECURSIVE DamageRange(_, _, _)
\* the loop of self_destruct that takes 1 point of health from each cell
DamageRangeByOne(g, cells, i) ==
    IF i > Len(cells) THEN g
    ELSE DamageRange(mod_health(g, cells[i], -1), cells, i + 1)

\* the loop of Game.self_destruct: mod_health(coord, -2) over cells[i..]
DamageRange(g, cells, i) ==
    IF i > Len(cells) THEN g
    ELSE DamageRange(mod_health(g, cells[i], -2), cells, i + 1)

\* self_destruct that damages the four orthogonal neighbours only
self_destruct_orthogonal(g, coords) ==
    LET itself == coords.src
        g1 == mod_health(g, itself, -(get(g, itself).health))
    IN  DamageRange(g1, iter_adjacent(itself), 1)

\* Game.self_destruct
self_destruct(g, coords) ==
    LET itself == coords.src
        g1 == mod_health(g, itself, -(get(g, itself).health))
    IN  DamageRange(g1, iter_range(itself, 1), 1)

\* perform_move whose plain move empties the source cell before it reads it
perform_move_clear_first(g, coords) ==
    IF is_valid_move(g, coords)
    THEN [game |-> set(set(g, coords.src, None), coords.dst,
                       get(set(g, coords.src, None), coords.src)),
          success |-> TRUE, result |-> "move"]
    ELSE IF is_valid_to_attack(g, coords)
    THEN [game |-> attack(g, coords), success |-> TRUE, result |-> "attack"]
    ELSE IF is_valid_to_repair(g, coords)
    THEN [game |-> repair(g, coords), success |-> TRUE, result |-> "repair"]
    ELSE IF is_valid_to_self_destruct(g, coords)
    THEN [game |-> self_destruct(g, coords), success |-> TRUE,
          result |-> "self-destruct"]
    ELSE [game |-> g, success |-> FALSE, result |-> "invalid move"]

\* perform_move whose plain move does not empty the source cell
perform_move_keep_src(g, coords) ==
    IF is_valid_move(g, coords)
    THEN [game |-> set(g, coords.dst, get(g, coords.src)),
          success |-> TRUE, result |-> "move"]
    ELSE IF is_valid_to_attack(g, coords)
    THEN [game |-> attack(g, coords), success |-> TRUE, result |-> "attack"]
    ELSE IF is_valid_to_repair(g, coords)
    THEN [game |-> repair(g, coords), success |-> TRUE, result |-> "repair"]
    ELSE IF is_valid_to_self_destruct(g, coords)
    THEN [game |-> self_destruct(g, coords), success |-> TRUE,
          result |-> "self-destruct"]
    ELSE [game |-> g, success |-> FALSE, result |-> "invalid move"]

\* Game.perform_move: [game, success, result]
perform_move(g, coords) ==
    IF is_valid_move(g, coords)
    THEN [game |-> set(set(g, coords.dst, get(g, coords.src)), coords.src, None),
          success |-> TRUE, result |-> "move"]
    ELSE IF is_valid_to_attack(g, coords)
    THEN [game |-> attack(g, coords), success |-> TRUE, result |-> "attack"]
    ELSE IF is_valid_to_repair(g, coords)
    THEN [game |-> repair(g, coords), success |-> TRUE, result |-> "repair"]
    ELSE IF is_valid_to_self_destruct(g, coords)
    THEN [game |-> self_destruct(g, coords), success |-> TRUE,
          result |-> "self-destruct"]
    ELSE [game |-> g, success |-> FALSE, result |-> "invalid move"]

\* Game.next_turn
\* next_turn that counts the turn without handing the move over
next_turn_keep_player(g) ==
    [g EXCEPT !.turns_played = g.turns_played + 1]

next_turn(g) ==
    [g EXCEPT !.next_player = PlayerNext(g.next_player),
              !.turns_played = g.turns_played + 1]

\* has_winner with no winner when both AIs are dead
has_winner_none_when_both_dead(g, max_turns) ==
    IF g.turns_played >= max_turns THEN Defender
    ELSE IF g.attacker_has_ai
         THEN IF g.defender_has_ai THEN NoPlayer ELSE Attacker
         ELSE IF g.defender_has_ai THEN Defender ELSE NoPlayer

\* has_winner that looks at the AI flags before the turn limit
has_winner_flags_first(g, max_turns) ==
    IF g.attacker_has_ai /\ ~g.defender_has_ai THEN Attacker
    ELSE IF ~g.attacker_has_ai THEN Defender
    ELSE IF g.turns_played >= max_turns THEN Defender
    ELSE NoPlayer

\* has_winner that ignores the turn limit
has_winner_no_turn_limit(g, max_turns) ==
    IF g.attacker_has_ai
    THEN IF g.defender_has_ai THEN NoPlayer ELSE Attacker
    ELSE Defender

\* Game.has_winner (max_turns is options.max_turns, always configured by main)
has_winner(g, max_turns) ==
    IF g.turns_played >= max_turns THEN Defender
    ELSE IF g.attacker_has_ai
         THEN IF g.defender_has_ai THEN NoPlayer ELSE Attacker
         ELSE Defender

\* Game.is_finished
is_finished(g, max_turns) == has_winner(g, max_turns) # NoPlayer


\* ------------------------------------------------------- move generator

\* CoordPair.from_dim(dim).iter_rectangle(): every cell, row by row
iter_rectangle == [i \in 1 .. Dim * Dim |-> <<(i - 1) \div Dim, (i - 1) % Dim>>]

\* Game.player_units: the coordinates of the player's units, row by row
player_units(g, player) ==
    SelectSeq(iter_rectangle, LAMBDA coord : get(g, coord) # None
                                             /\ get(g, coord).player = player)

\* unit_candidates that leaves the repairs out
unit_candidates_no_repair(g, src) ==
    SelectSeq([i \in 1 .. 4 |-> CoordPair(src, iter_adjacent(src)[i])],
              LAMBDA move : \/ is_valid_move(g, move)
                            \/ is_valid_to_attack(g, move))
    \o << CoordPair(src, src) >>

\* the moves one source yields: the adjacent destinations that pass
\* is_valid_move, is_valid_to_attack or is_valid_to_repair, then src -> src
unit_candidates(g, src) ==
    SelectSeq([i \in 1 .. 4 |-> CoordPair(src, iter_adjacent(src)[i])],
              LAMBDA move : \/ is_valid_move(g, move)
                            \/ is_valid_to_attack(g, move)
                            \/ is_valid_to_repair(g, move))
    \o << CoordPair(src, src) >>

RECURSIVE candidates_from(_, _, _)
candidates_from(g, units, i) ==
    IF i > Len(units) THEN << >>
    ELSE unit_candidates(g, units[i]) \o candidates_from(g, units, i + 1)

\* Game.move_candidates
move_candidates(g) == candidates_from(g, player_units(g, g.next_player), 1)

\* Game.get_moves_for_player
get_moves_for_player(g, current_player) ==
    candidates_from(g, player_units(g, current_player), 1)

\* ------------------------------------------------------------ heuristics

MAX_HEURISTIC_SCORE == 2000000000
MIN_HEURISTIC_SCORE == -2000000000

\* how many units of the given types the player has on the board
CountUnits(g, player, types) ==
    Cardinality({x \in Coords : g.board[x].player = player /\ g.board[x].type \in types})

\* heuristic_e0 that weighs an AI like any other unit
heuristic_e0_flat(g, maximizing_player) ==
    LET score(p) == 3 * CountUnits(g, p, UnitType)
    IN  score(maximizing_player) - score(PlayerNext(maximizing_player))

\* Game.heuristic_e0
heuristic_e0(g, maximizing_player) ==
    LET score(p) == 3 * CountUnits(g, p, {"Virus", "Tech", "Firewall", "Program"})
                    + 9999 * CountUnits(g, p, {"AI"})
    IN  score(maximizing_player) - score(PlayerNext(maximizing_player))

\* heuristic_e1 that takes the threat to the AI off the maximizing
\* player's score only
heuristic_e1_own_safety(g, maximizing_player) ==
    LET engaged(p) == Cardinality({x \in Coords :
                          /\ g.board[x].player = p
                          /\ g.board[x].type = "AI"
                          /\ is_engaged_in_combat(g, x)})
        score(p) == CountUnits(g, p, UnitType) + 9999 * CountUnits(g, p, {"AI"})
    IN  (score(maximizing_player) - 100 * engaged(maximizing_player))
        - score(PlayerNext(maximizing_player))

\* Game.heuristic_e1
heuristic_e1(g, maximizing_player) ==
    LET engaged(p) == Cardinality({x \in Coords :
                          /\ g.board[x].player = p
                          /\ g.board[x].type = "AI"
                          /\ is_engaged_in_combat(g, x)})
        score(p) == (0 - 100 * engaged(p))
                    + (CountUnits(g, p, UnitType) + 9999 * CountUnits(g, p, {"AI"}))
    IN  score(maximizing_player) - score(PlayerNext(maximizing_player))

\* Game.heuristic_e2
heuristic_e2(g, maximizing_player) ==
    LET opponent == PlayerNext(maximizing_player)
        score(p) == 9999 * CountUnits(g, p, {"AI"})
                    + 1000 * CountUnits(g, p, {"Virus"})
                    + 1000 * CountUnits(g, p, {"Tech"})
    IN  (score(maximizing_player) - score(opponent))
        + (Len(get_moves_for_player(g, maximizing_player))
           - Len(get_moves_for_player(g, opponent)))

\* Game.minimax, leaf: the evaluation options.heuristic selects
evaluate(g, maximizing_player, opts) ==
    IF opts.heuristic = "e1" THEN heuristic_e1(g, maximizing_player)
    ELSE IF opts.heuristic = "e2" THEN heuristic_e2(g, maximizing_player)
    ELSE heuristic_e0(g, maximizing_player)

\* ---------------------------------------------------------------- search

\* map[depth] = map.get(depth, 0) + 1 on the global dict map
count_node(st, depth) ==
    [st EXCEPT !.map = IF depth \in DOMAIN st.map
                       THEN [st.map EXCEPT ![depth] = @ + 1]
                       ELSE (depth :> 1) @@ st.map]

\* clone that copies the Game object only: the clone's board is the list
\* of the original
clone_shallow(g) == [new |-> g, board_shared |-> TRUE]

\* Game.clone: a copy of the Game object with a deep copy of the board, so
\* that nothing written through the clone's board reaches the original's
clone(g) == [new |-> g, board_shared |-> FALSE]

(***************************************************************************)
(* The arguments one call of Game.minimax is entered with (the window       *)
(* alpha, beta as the pair window), and for a leaf                         *)
(* the score it returns.  When the accumulators st carry a field "nodes",  *)
(* the call is added to it and counted (calls, and leaf_calls for a call   *)
(* that returns at once); the game loop passes the program's two counters  *)
(* only, and nothing is recorded.                                          *)
(***************************************************************************)
visit(st, g, depth, is_maximizing_player, maximizing_player, window, leaf, score) ==
    IF "nodes" \in DOMAIN st
    THEN [st EXCEPT !.nodes = @ \cup {[game |-> g, depth |-> depth,
                                       is_maximizing_player |-> is_maximizing_player,
                                       maximizing_player |-> maximizing_player,
                                       alpha |-> window[1], beta |-> window[2],
                                       leaf |-> leaf, score |-> score]},
                    !.calls = @ + 1,
                    !.leaf_calls = IF leaf THEN @ + 1 ELSE @]
    ELSE st

RECURSIVE minimax(_, _, _, _, _, _, _, _)
RECURSIVE minimax_loop(_, _, _, _, _, _, _, _, _, _, _, _)

(***************************************************************************)
(* Game.minimax.  st is the pair of global accumulators [map,              *)
(* nb_of_leaf_nodes] the search updates in place; the result is            *)
(* [score, move, st, game], game being the Game object the call was given  *)
(* as the call leaves it: every move is tried on temp_game = game.clone(),  *)
(* and what is written to a board temp_game shares with game is written    *)
(* to game.                                                                *)
(***************************************************************************)
minimax(g, depth, is_maximizing_player, maximizing_player, alpha, beta, opts, st) ==
    IF depth = 0 \/ has_winner(g, opts.max_turns) # NoPlayer
    THEN LET score == evaluate(g, maximizing_player, opts)
         IN  [score |-> score,
              move |-> NoMove,
              st |-> visit([st EXCEPT !.nb_of_leaf_nodes = @ + 1], g, depth,
                           is_maximizing_player, maximizing_player, <<alpha, beta>>,
                           TRUE, score),
              game |-> g]
    ELSE minimax_loop(g, depth, is_maximizing_player, maximizing_player,
                      alpha, beta, opts,
                      visit(st, g, depth, is_maximizing_player, maximizing_player,
                            <<alpha, beta>>, FALSE, 0),
                      move_candidates(g), 1,
                      IF is_maximizing_player THEN MIN_HEURISTIC_SCORE
                                              ELSE MAX_HEURISTIC_SCORE,
                      NoMove)

\* the loop of minimax that cuts off as soon as alpha <= beta
minimax_loop_eager_cut(g, depth, is_maximizing_player, maximizing_player, alpha, beta, opts, st, moves, i, best_eval, best_move) ==
    IF i > Len(moves)
    THEN [score |-> best_eval, move |-> best_move, st |-> st, game |-> g]
    ELSE
      LET st1 == count_node(st, depth)
          temp_game == clone(g)
          r == perform_move(temp_game.new, moves[i])
      IN  IF st1.map[depth] >= 1 /\ ~r.success
          THEN minimax_loop(g, depth, is_maximizing_player, maximizing_player,
                            alpha, beta, opts, st1, moves, i + 1, best_eval, best_move)
          ELSE
            LET child == minimax(next_turn(r.game), depth - 1, ~is_maximizing_player,
                                 maximizing_player, alpha, beta, opts, st1)
                current_eval == child.score
                better == IF is_maximizing_player THEN current_eval > best_eval
                                                  ELSE current_eval < best_eval
                eval1 == IF better THEN current_eval ELSE best_eval
                move1 == IF better THEN moves[i] ELSE best_move
                alpha1 == IF opts.alpha_beta /\ is_maximizing_player /\ current_eval > alpha
                          THEN current_eval ELSE alpha
                beta1 == IF opts.alpha_beta /\ ~is_maximizing_player /\ current_eval < beta
                         THEN current_eval ELSE beta
                g1 == IF temp_game.board_shared
                      THEN [g EXCEPT !.board = child.game.board]
                      ELSE g
            IN  IF opts.alpha_beta /\ alpha1 <= beta1
                THEN [score |-> eval1, move |-> move1, st |-> child.st, game |-> g1]
                ELSE minimax_loop(g1, depth, is_maximizing_player, maximizing_player,
                                  alpha1, beta1, opts, child.st, moves, i + 1,
                                  eval1, move1)

\* the loop of minimax that never breaks
minimax_loop_no_cut(g, depth, is_maximizing_player, maximizing_player, alpha, beta, opts, st, moves, i, best_eval, best_move) ==
    IF i > Len(moves)
    THEN [score |-> best_eval, move |-> best_move, st |-> st, game |-> g]
    ELSE
      LET st1 == count_node(st, depth)
          r == perform_move(clone(g).new, moves[i])
      IN  IF st1.map[depth] >= 1 /\ ~r.success
          THEN minimax_loop(g, depth, is_maximizing_player, maximizing_player,
                            alpha, beta, opts, st1, moves, i + 1, best_eval, best_move)
          ELSE
            LET child == minimax(next_turn(r.game), depth - 1, ~is_maximizing_player,
                                 maximizing_player, alpha, beta, opts, st1)
                current_eval == child.score
                better == IF is_maximizing_player THEN current_eval > best_eval
                                                  ELSE current_eval < best_eval
                eval1 == IF better THEN current_eval ELSE best_eval
                move1 == IF better THEN moves[i] ELSE best_move
                alpha1 == IF opts.alpha_beta /\ is_maximizing_player /\ current_eval > alpha
                          THEN current_eval ELSE alpha
                beta1 == IF opts.alpha_beta /\ ~is_maximizing_player /\ current_eval < beta
                         THEN current_eval ELSE beta
            IN  minimax_loop(g, depth, is_maximizing_player, maximizing_player,
                             alpha1, beta1, opts, child.st, moves, i + 1,
                             eval1, move1)

\* the loop of minimax that hands its own is_maximizing_player to the child
minimax_loop_same_side(g, depth, is_maximizing_player, maximizing_player, alpha, beta, opts, st, moves, i, best_eval, best_move) ==
    IF i > Len(moves)
    THEN [score |-> best_eval, move |-> best_move, st |-> st, game |-> g]
    ELSE
      LET st1 == count_node(st, depth)
          r == perform_move(clone(g).new, moves[i])
      IN  IF st1.map[depth] >= 1 /\ ~r.success
          THEN minimax_loop(g, depth, is_maximizing_player, maximizing_player,
                            alpha, beta, opts, st1, moves, i + 1, best_eval, best_move)
          ELSE
            LET child == minimax(next_turn(r.game), depth - 1, is_maximizing_player,
                                 maximizing_player, alpha, beta, opts, st1)
                current_eval == child.score
                better == IF is_maximizing_player THEN current_eval > best_eval
                                                  ELSE current_eval < best_eval
                eval1 == IF better THEN current_eval ELSE best_eval
                move1 == IF better THEN moves[i] ELSE best_move
                alpha1 == IF opts.alpha_beta /\ is_maximizing_player /\ current_eval > alpha
                          THEN current_eval ELSE alpha
                beta1 == IF opts.alpha_beta /\ ~is_maximizing_player /\ current_eval < beta
                         THEN current_eval ELSE beta
            IN  IF opts.alpha_beta /\ beta1 <= alpha1
                THEN [score |-> eval1, move |-> move1, st |-> child.st, game |-> g]
                ELSE minimax_loop(g, depth, is_maximizing_player, maximizing_player,
                                  alpha1, beta1, opts, child.st, moves, i + 1,
                                  eval1, move1)

\* the loop `for move in moves` of Game.minimax from moves[i] on, with the
\* best evaluation and move so far.  The counter just incremented is read
\* (it is at least 1) before the move is tried, so that every iteration
\* works on the counters' values and not on the pending updates of all
\* the iterations before it.
minimax_loop(g, depth, is_maximizing_player, maximizing_player, alpha, beta, opts, st, moves, i, best_eval, best_move) ==
    IF i > Len(moves)
    THEN [score |-> best_eval, move |-> best_move, st |-> st, game |-> g]
    ELSE
      LET st1 == count_node(st, depth)
          temp_game == clone(g)
          r == perform_move(temp_game.new, moves[i])
      IN  IF st1.map[depth] >= 1 /\ ~r.success
          THEN minimax_loop(g, depth, is_maximizing_player, maximizing_player,
                            alpha, beta, opts, st1, moves, i + 1, best_eval, best_move)
          ELSE
            LET child == minimax(next_turn(r.game), depth - 1, ~is_maximizing_player,
                                 maximizing_player, alpha, beta, opts, st1)
                current_eval == child.score
                better == IF is_maximizing_player THEN current_eval > best_eval
                                                  ELSE current_eval < best_eval
                eval1 == IF better THEN current_eval ELSE best_eval
                move1 == IF better THEN moves[i] ELSE best_move
                alpha1 == IF opts.alpha_beta /\ is_maximizing_player /\ current_eval > alpha
                          THEN current_eval ELSE alpha
                beta1 == IF opts.alpha_beta /\ ~is_maximizing_player /\ current_eval < beta
                         THEN current_eval ELSE beta
                g1 == IF temp_game.board_shared
                      THEN [g EXCEPT !.board = child.game.board]
                      ELSE g
            IN  IF opts.alpha_beta /\ beta1 <= alpha1
                THEN [score |-> eval1, move |-> move1, st |-> child.st, game |-> g1]
                ELSE minimax_loop(g1, depth, is_maximizing_player, maximizing_player,
                                  alpha1, beta1, opts, child.st, moves, i + 1,
                                  eval1, move1)

\* Game.suggest_move, the search: minimax from the live game at max_depth
\* with the full window
search(g, opts, st) ==
    minimax(g, opts.max_depth, TRUE, g.next_player,
            MIN_HEURISTIC_SCORE, MAX_HEURISTIC_SCORE, opts, st)

\* Game.__post_init__: the standard layout, two camps in opposite corners
post_init_board ==
    LET md == Dim - 1
    IN  ( <<0, 0>> :> Unit(Defender, "AI", 9)
       @@ <<1, 0>> :> Unit(Defender, "Tech", 9)
       @@ <<0, 1>> :> Unit(Defender, "Tech", 9)
       @@ <<2, 0>> :> Unit(Defender, "Firewall", 9)
       @@ <<0, 2>> :> Unit(Defender, "Firewall", 9)
       @@ <<1, 1>> :> Unit(Defender, "Program", 9)
       @@ <<md, md>> :> Unit(Attacker, "AI", 9)
       @@ <<md - 1, md>> :> Unit(Attacker, "Virus", 9)
       @@ <<md, md - 1>> :> Unit(Attacker, "Virus", 9)
       @@ <<md - 2, md>> :> Unit(Attacker, "Program", 9)
       @@ <<md, md - 2>> :> Unit(Attacker, "Program", 9)
       @@ <<md - 1, md - 1>> :> Unit(Attacker, "Firewall", 9) )
       @@ [c \in Coords |-> None]

\* ------------------------------------------------------- starting points
(***************************************************************************)
(* The game starts from the standard layout.  To reach the end game, where *)
(* units die and the AIs meet, within a few turns, the model also starts   *)
(* from three positions that the program reaches from the standard layout  *)
(* by the recorded sequences of accepted perform_move/next_turn calls      *)
(* (each move written <src><dst>, rows A-E, columns 0-4).                  *)
(*                                                                         *)
(* Position 2, after 79 turns, Defender to move:                           *)
(*   D3D2 A2A3 D4D3 A3A4 C4B4 B1C1 E2E1 A1B1 E1D1 C0D0 D2C2 A4B4 C2C1 C1C2 *)
(*   D1C1 C1D1 D1C1 B1B2 E3E2 B2A2 D3D4 B0C0 D4C4 A0B0 C2C1 A2B2 C4D4 B2C2 *)
(*   E4E3 C0C1 B4A4 A4B4 C1C0 C2C1 D4C4 C2D2 C4D4 B0B1 B4A4 D2D1 C1D1 D1D2 *)
(*   C1B1 D2E2 B4A4 C0C1 E2D2 C0B0 E3D3 B1B0 D4C4 D0E0 D3D2 B1C1 D2C2 A4B4 *)
(*   C4C3 B1C1 B4A4 B0C0 C2C1 C0D0 C3D3 E0E1 D3D4 A4B4 B4B4 E1E2 D4D3 D0D1 *)
(*   C2C1 C1D1 D3E3 D1D2 E3E2 E2E3 E3D3 D2D3 D3E3                          *)
(* Position 3, after 82 turns, Attacker to move:                           *)
(*   E2E1 B1B2 D3D2 C0D0 E3E2 D0D1 C4B4 B0C0 E1D1 D1D2 D4C4 A0B0 C4C3 B0B1 *)
(*   D2D1 C0D0 E4E3 D0D1 E3D3 D0E0 C3B3 B2B3 B3C3 D1E1 B4B3 D1E1 C3C4 D1D2 *)
(*   E1E0 D1D2 C4B4 A1A0 E1E0 D1D2 E2E3 A2A3 B4C4 B1C1 B3B2 A3B3 C4D4 C1C2 *)
(*   E1D1 E0D0 E3E4 D0E0 D2D1 E0E1 E4E3 D1E1 E3E4 D1D2 D3C3 C2C3 D4C4 A3B3 *)
(*   B3A3 A3B3 E1D1 C2D2 C4D4 A0A1 D2C2 A1A0 D1D0 A3B3 E4E3 A3B3 E3D3 A0B0 *)
(*   D0C0 B0C0 D4C4 B0B1 C4D4 A3A4 C3C2 B1B2 D3D2 B2A2 D4C4 A2B2           *)
(* Position 4, after 106 turns, Attacker to move:                          *)
(*   D3D2 C0C1 C4B4 C1C2 B4B3 A2A3 D2C2 A1A2 D4D3 B1C1 B3A3 A0A1 E4D4 A1B1 *)
(*   E2E1 A3B3 E1E0 B1B2 E3E4 B0C0 D3C3 C2C3 E0D0 B2B3 D2C2 C2D2 C3C2 C1D1 *)
(*   D0D1 A2A3 E4E3 D1D2 B3B2 C2C3 D4C4 A3B3 E3E4 A3B3 E4E3 C0C1 E3D3 C1D1 *)
(*   C3C2 D1D0 C3B3 B3C3 C4C3 A2A1 D2C2 D1D0 D2C2 B3C3 D3E3 C1C0 E3E4 C0B0 *)
(*   C3D3 A1B1 C4C3 B1C1 C3D3 B0A0 E4D4 C1C0 D4E4 A0A1 C3B3 A1A0 C3D3 C0C1 *)
(*   C3B3 A0A1 D2D1 A1B1 C3B3 B1B0 E4D4 D1D2 D2C2 C1C0 C3D3 B2C2 D4E4 C0D0 *)
(*   E4D4 B0A0 D4C4 B3C3 C3D3 D0D1 D3E3 B2C2 E3E4 B3C3 C4D4 A0A1 E4E3 D1C1 *)
(*   E3E2 C1C2 D4C4 A1A0 E2D2 A0A1 C4B4 C2C3                               *)
(***************************************************************************)
Positions ==
    << [board |-> post_init_board, next_player |-> Attacker, turns_played |-> 0],
       [board |-> ( <<2, 1>> :> Unit(Defender, "AI", 1)
                 @@ <<2, 2>> :> Unit(Attacker, "AI", 3)
                 @@ <<3, 2>> :> Unit(Defender, "Tech", 2)
                 @@ <<4, 2>> :> Unit(Defender, "Firewall", 7)
                 @@ <<4, 3>> :> Unit(Attacker, "Virus", 1) )
                 @@ [c \in Coords |-> None],
        next_player |-> Defender, turns_played |-> 79],
       [board |-> ( <<0, 4>> :> Unit(Defender, "Firewall", 3)
                 @@ <<1, 2>> :> Unit(Defender, "Tech", 6)
                 @@ <<2, 2>> :> Unit(Defender, "AI", 1)
                 @@ <<2, 3>> :> Unit(Attacker, "AI", 3)
                 @@ <<2, 4>> :> Unit(Attacker, "Virus", 6)
                 @@ <<3, 2>> :> Unit(Attacker, "Virus", 9) )
                 @@ [c \in Coords |-> None],
        next_player |-> Attacker, turns_played |-> 82],
       [board |-> ( <<0, 1>> :> Unit(Defender, "Tech", 9)
                 @@ <<1, 4>> :> Unit(Attacker, "Virus", 9)
                 @@ <<2, 1>> :> Unit(Defender, "Tech", 9)
                 @@ <<2, 2>> :> Unit(Defender, "AI", 2)
                 @@ <<2, 3>> :> Unit(Attacker, "AI", 1)
                 @@ <<3, 2>> :> Unit(Attacker, "Virus", 7) )
                 @@ [c \in Coords |-> None],
        next_player |-> Attacker, turns_played |-> 106] >>

\* ---------------------------------------------------------------- bounds

\* options.max_turns is at most this many turns past the starting position
MaxExtraTurns == 2

\* a coordinate relayed by the broker may lie this far outside the board
Margin == 1

\* the destination of a submitted move is at most this many steps from its source
Reach == 2

ExtCoords == (0 - Margin .. Dim - 1 + Margin) \X (0 - Margin .. Dim - 1 + Margin)

Abs(x) == IF x < 0 THEN -x ELSE x

Near(src) ==
    {d \in (src[1] - Reach .. src[1] + Reach) \X (src[2] - Reach .. src[2] + Reach) :
        Abs(d[1] - src[1]) + Abs(d[2] - src[2]) <= Reach}

\* the coordinate pairs a handler may pass to perform_move
Moves == UNION {{CoordPair(s, d) : d \in Near(s)} : s \in ExtCoords}

\* Options.max_turns as the class declares it
DefaultMaxTurns == 100

\* the options main() builds from the command line for a manual game; the
\* search options keep the defaults of class Options
ManualOptions ==
    { [game_type |-> "AttackerVsDefender", broker |-> b,
       max_depth |-> 4, alpha_beta |-> TRUE, heuristic |-> "e0"] : b \in BOOLEAN }

\* the options main() builds for the games a computer plays in
CompOptions ==
    { [game_type |-> "AttackerVsComp", broker |-> FALSE,
       max_depth |-> 2, alpha_beta |-> TRUE, heuristic |-> "e0"],
      [game_type |-> "CompVsDefender", broker |-> TRUE,
       max_depth |-> 2, alpha_beta |-> FALSE, heuristic |-> "e1"],
      [game_type |-> "CompVsComp", broker |-> FALSE,
       max_depth |-> 1, alpha_beta |-> TRUE, heuristic |-> "e2"],
      [game_type |-> "CompVsComp", broker |-> FALSE,
       max_depth |-> 0, alpha_beta |-> TRUE, heuristic |-> "e0"] }

\* a whole game between two computers under the default turn limit
FullGameOptions ==
    [game_type |-> "CompVsComp", broker |-> FALSE,
     max_depth |-> 2, alpha_beta |-> TRUE, heuristic |-> "e0"]

WithMaxTurns(o, n) ==
    [game_type |-> o.game_type, broker |-> o.broker, max_depth |-> o.max_depth,
     alpha_beta |-> o.alpha_beta, heuristic |-> o.heuristic, max_turns |-> n]

(***************************************************************************)
(* The games explored.  A manual game is taken up at any of the positions  *)
(* above, where only people have moved; a game with a computer in it       *)
(* starts at the standard layout, since the positions a computer reaches   *)
(* are the ones its search chooses.                                        *)
(***************************************************************************)
Starts ==
    {[position |-> p, options |-> WithMaxTurns(o, Positions[p].turns_played + k)] :
        p \in 1 .. Len(Positions), o \in ManualOptions, k \in 0 .. MaxExtraTurns}
    \cup {[position |-> 1, options |-> WithMaxTurns(o, k)] :
              o \in CompOptions, k \in 0 .. MaxExtraTurns}
    \cup {[position |-> 1, options |-> WithMaxTurns(FullGameOptions, DefaultMaxTurns)]}

\* ----------------------------------------------------------------- state

VARIABLES
    board,              \* Game.board
    next_player,        \* Game.next_player
    turns_played,       \* Game.turns_played
    attacker_has_ai,    \* Game._attacker_has_ai
    defender_has_ai,    \* Game._defender_has_ai
    options,            \* Game.options
    pc,                 \* main: "loop" (top of the game loop), "done" (winner
                        \* declared), "exit" (exit(1)), "crash" (uncaught exception)
    winner,             \* main: the winner it declared, NoPlayer before
    mv,                 \* the coordinates of the last action applied
    success,            \* what the last perform_move returned
    result,
    map,                \* the global dict map: nodes expanded per depth
    nb_of_leaf_nodes,   \* the global counter of leaves evaluated
    unit,               \* a Unit object that mod_health is called on directly
    health_delta        \* the argument of the last such call

vars == <<board, next_player, turns_played, attacker_has_ai, defender_has_ai,
          options, pc, winner, mv, success, result, map, nb_of_leaf_nodes,
          unit, health_delta>>

\* the live Game object
Self ==
    [board |-> board, next_player |-> next_player, turns_played |-> turns_played,
     attacker_has_ai |-> attacker_has_ai, defender_has_ai |-> defender_has_ai]

SetGame(g) ==
    /\ board' = g.board
    /\ next_player' = g.next_player
    /\ turns_played' = g.turns_played
    /\ attacker_has_ai' = g.attacker_has_ai
    /\ defender_has_ai' = g.defender_has_ai

Init ==
    \E start \in Starts :
        /\ board = Positions[start.position].board
        /\ next_player = Positions[start.position].next_player
        /\ turns_played = Positions[start.position].turns_played
        /\ attacker_has_ai = TRUE
        /\ defender_has_ai = TRUE
        /\ options = start.options
        /\ pc = "loop"
        /\ winner = NoPlayer
        /\ mv = NoMove
        /\ success = FALSE
        /\ result = "none"
        /\ map = << >>
        /\ nb_of_leaf_nodes = 0
        /\ unit = None
        /\ health_delta = 0

\* a game loop that never asks has_winner()
PlayingNoWinnerCheck == pc = "loop"

\* main: the game loop goes on while has_winner() is None
Playing == pc = "loop" /\ has_winner(Self, options.max_turns) = NoPlayer

\* main: which handler the loop calls for the player to move
IsHumanTurn ==
    \/ options.game_type = "AttackerVsDefender"
    \/ options.game_type = "AttackerVsComp" /\ next_player = Attacker
    \/ options.game_type = "CompVsDefender" /\ next_player = Defender

\* a turn that calls next_turn() whatever perform_move returned
PlayTurnAlwaysNext(g, coords) ==
    LET r == perform_move(g, coords)
    IN  /\ SetGame(next_turn(r.game))
        /\ mv' = IF r.success THEN coords ELSE NoMove
        /\ success' = r.success
        /\ result' = r.result

\* perform_move(coords) on the live game g, then next_turn() when it
\* succeeded
PlayTurn(g, coords) ==
    LET r == perform_move(g, coords)
    IN  /\ SetGame(IF r.success THEN next_turn(r.game) ELSE r.game)
        /\ mv' = IF r.success THEN coords ELSE NoMove
        /\ success' = r.success
        /\ result' = r.result

\* Game.human_turn without a broker: read_move yields in-bounds coordinates
HumanTurn ==
    /\ Playing
    /\ IsHumanTurn
    /\ ~options.broker
    /\ \E coords \in Moves :
          \* Game.read_move only returns coordinates on the board
          /\ is_valid_coord(coords.src) /\ is_valid_coord(coords.dst)
          /\ PlayTurn(Self, coords)
    /\ UNCHANGED <<options, pc, winner, map, nb_of_leaf_nodes, unit, health_delta>>

\* Game.human_turn with a broker: any coordinates may come from the broker
BrokerTurn ==
    /\ Playing
    /\ IsHumanTurn
    /\ options.broker
    /\ \E coords \in Moves : PlayTurn(Self, coords)
    /\ UNCHANGED <<options, pc, winner, map, nb_of_leaf_nodes, unit, health_delta>>

\* Game.sort_map raises KeyError unless map has every depth 1 .. max_depth
sort_map_defined(m, opts) ==
    \A key \in 1 .. opts.max_depth : (opts.max_depth + 1) - key \in DOMAIN m

\* Game.sort_map: key |-> map[limit - key]
sort_map(m, opts) ==
    [key \in 1 .. opts.max_depth |-> m[(opts.max_depth + 1) - key]]

RECURSIVE SumTo(_, _)
SumTo(f, n) == IF n = 0 THEN 0 ELSE f[n] + SumTo(f, n - 1)

\* Game.get_cumulative_evals: the sum of the values of sort_map()
get_cumulative_evals(m, opts) == SumTo(sort_map(m, opts), opts.max_depth)

(***************************************************************************)
(* Game.suggest_move after the search: the statistics written to the       *)
(* trace file.  They raise when sort_map misses a depth (KeyError), when   *)
(* sort_map is empty (get_cumulative_evals_by_depth takes its last key:    *)
(* IndexError), when the total is 0 (get_cumulative_perc_evals) and when   *)
(* the nodes counted equal the leaves (get_avg_branching_factor:           *)
(* ZeroDivisionError).  main() catches none of these.                      *)
(***************************************************************************)
report_raises(st, opts) ==
    \/ ~sort_map_defined(st.map, opts)
    \/ opts.max_depth < 1
    \/ get_cumulative_evals(st.map, opts) = 0
    \/ get_cumulative_evals(st.map, opts) - st.nb_of_leaf_nodes = 0

(***************************************************************************)
(* Game.suggest_move once the search s is done: None (NoMove) when the     *)
(* elapsed time exceeds max_time, otherwise the statistics are written,    *)
(* which may raise, and the move of the search is returned.                *)
(***************************************************************************)
suggest_move(s, opts, timed_out) ==
    IF timed_out THEN [raised |-> FALSE, move |-> NoMove]
    ELSE IF report_raises(s.st, opts) THEN [raised |-> TRUE, move |-> NoMove]
    ELSE [raised |-> FALSE, move |-> s.move]

(***************************************************************************)
(* Game.computer_turn as main() calls it.  The search updates the global   *)
(* counters; whether it took longer than max_time is not decided by the    *)
(* game state.  suggest_move returning None makes main() exit; otherwise   *)
(* the move is performed and, when it succeeded, the turn passes.  s.game  *)
(* is the live game as the search leaves it.                               *)
(***************************************************************************)
ComputerTurn ==
    /\ Playing
    /\ ~IsHumanTurn
    /\ LET s == search(Self, options, [map |-> map, nb_of_leaf_nodes |-> nb_of_leaf_nodes])
       IN  /\ map' = s.st.map
           /\ nb_of_leaf_nodes' = s.st.nb_of_leaf_nodes
           /\ \E timed_out \in BOOLEAN :
                 LET suggested == suggest_move(s, options, timed_out)
                 IN  IF suggested.raised
                     THEN /\ pc' = "crash"
                          /\ SetGame(s.game)
                          /\ UNCHANGED <<mv, success, result>>
                     ELSE IF suggested.move = NoMove
                     THEN /\ pc' = "exit"
                          /\ SetGame(s.game)
                          /\ UNCHANGED <<mv, success, result>>
                     ELSE /\ pc' = pc
                          /\ PlayTurn(s.game, suggested.move)
    /\ UNCHANGED <<options, winner, unit, health_delta>>

\* main: has_winner() is not None, the winner is declared and the loop ends
DeclareWinner ==
    /\ pc = "loop"
    /\ has_winner(Self, options.max_turns) # NoPlayer
    /\ winner' = has_winner(Self, options.max_turns)
    /\ pc' = "done"
    /\ UNCHANGED <<board, next_player, turns_played, attacker_has_ai,
                   defender_has_ai, options, mv, success, result, map,
                   nb_of_leaf_nodes, unit, health_delta>>

Next ==
    \/ HumanTurn
    \/ BrokerTurn
    \/ ComputerTurn
    \/ DeclareWinner

Spec == Init /\ [][Next]_vars

\* ------------------------------------------------------ Unit on its own

\* the deltas passed to Unit.mod_health are at most this large in size
MaxDelta == 10

Deltas == (0 - MaxDelta) .. MaxDelta

\* a Unit as its constructor builds it (any player, type, health 0..9),
\* beside a game that is not played
UnitInit ==
    /\ unit \in {Unit(p, t, h) : p \in Player, t \in UnitType, h \in 0 .. 9}
    /\ health_delta = 0
    /\ board = post_init_board
    /\ next_player = Attacker
    /\ turns_played = 0
    /\ attacker_has_ai = TRUE
    /\ defender_has_ai = TRUE
    /\ options = WithMaxTurns(FullGameOptions, DefaultMaxTurns)
    /\ pc = "loop"
    /\ winner = NoPlayer
    /\ mv = NoMove
    /\ success = FALSE
    /\ result = "none"
    /\ map = << >>
    /\ nb_of_leaf_nodes = 0

\* one call unit.mod_health(delta)
ModHealth ==
    /\ \E delta \in Deltas :
          /\ unit' = unit_mod_health(unit, delta)
          /\ health_delta' = delta
    /\ UNCHANGED <<board, next_player, turns_played, attacker_has_ai,
                   defender_has_ai, options, pc, winner, mv, success, result,
                   map, nb_of_leaf_nodes>>

\* any sequence of mod_health calls on one unit
UnitSpec == UnitInit /\ [][ModHealth]_vars

\* main() does not stop at the top of its loop: once has_winner() returns
\* a player, the winner is declared and the loop is left
FairSpec == Init /\ [][Next]_vars /\ WF_vars(DeclareWinner)

\* the games a computer plays in: the ones in which main() calls
\* computer_turn, and with it suggest_move and minimax
CompInit == Init /\ options.game_type # "AttackerVsDefender"

SearchSpec == CompInit /\ [][Next]_vars


\* ---------------------------------------------------------------- claims

Min(a, b) == IF a < b THEN a ELSE b

\* the cells whose content differs between games g and h
Changed(g, h) == {x \in Coords : h.board[x] # g.board[x]}

SameFlags(g, h) ==
    /\ h.attacker_has_ai = g.attacker_has_ai
    /\ h.defender_has_ai = g.defender_has_ai

SameTurn(g, h) ==
    /\ h.next_player = g.next_player
    /\ h.turns_played = g.turns_played

\* cell x of h holds nothing, or the unit g has there with less health
Weakened(g, h, x) ==
    \/ h.board[x] = None
    \/ /\ h.board[x].player = g.board[x].player
       /\ h.board[x].type = g.board[x].type
       /\ h.board[x].health < g.board[x].health

\* the first applicable action kind, in the order move, attack, repair,
\* self-destruct
FirstApplicable(g, c) ==
    IF is_valid_move(g, c) THEN "move"
    ELSE IF is_valid_to_attack(g, c) THEN "attack"
    ELSE IF is_valid_to_repair(g, c) THEN "repair"
    ELSE IF is_valid_to_self_destruct(g, c) THEN "self-destruct"
    ELSE "invalid move"

\* what an action of each kind, and no other, does to the board
KindEffect(kind, g, h, c) ==
    CASE kind = "move" ->
            /\ Changed(g, h) = {c.src, c.dst}
            /\ h.board[c.dst] = g.board[c.src]
            /\ h.board[c.src] = None
            /\ SameFlags(g, h)
      [] kind = "attack" ->
            /\ Changed(g, h) = {c.src, c.dst}
            /\ Weakened(g, h, c.src)
            /\ Weakened(g, h, c.dst)
      [] kind = "repair" ->
            /\ Changed(g, h) = {c.dst}
            /\ h.board[c.dst].player = g.board[c.dst].player
            /\ h.board[c.dst].type = g.board[c.dst].type
            /\ h.board[c.dst].health > g.board[c.dst].health
            /\ SameFlags(g, h)
      [] kind = "self-destruct" ->
            /\ h.board[c.src] = None
            /\ c.src \in Changed(g, h)
            /\ \A x \in Changed(g, h) :
                  /\ Abs(x[1] - c.src[1]) <= 1
                  /\ Abs(x[2] - c.src[2]) <= 1
                  /\ Weakened(g, h, x)
      [] OTHER -> h = g

\* C1: on every board the game loop plays on (no winner yet) and for every
\* coordinate pair, perform_move returns the first applicable kind in the
\* order move, attack, repair, self-destruct (failure when none applies),
\* and what it does to the game is the effect of that kind and nothing else.
PerformMovePriority ==
    Playing => \A c \in Moves :
        LET g == Self
            r == perform_move(g, c)
            kind == FirstApplicable(g, c)
        IN  /\ r.result = kind
            /\ r.success = (kind # "invalid move")
            /\ SameTurn(g, r.game)
            /\ KindEffect(kind, g, r.game, c)

\* C1 witness: a turn was resolved as a repair, the third kind in the order
PerformMoveRepaired == success /\ result = "repair" /\ board[mv.dst] # None

\* C2: on every board the game loop plays on, whenever perform_move returns
\* "invalid move" the game is exactly as before, and it does so for
\* coordinates off the board, an empty source, a source of the player not
\* to move and a destination that is neither the source nor adjacent to it.
InvalidMoveNoMutation ==
    Playing => \A c \in Moves :
        LET g == Self
            r == perform_move(g, c)
        IN  /\ r.result = "invalid move" => (~r.success /\ r.game = g)
            /\ ( \/ ~is_valid_coord(c.src)
                 \/ ~is_valid_coord(c.dst)
                 \/ get(g, c.src) = None
                 \/ get(g, c.src).player # g.next_player
                 \/ (c.src # c.dst /\ ~is_adjacent(c.src, c.dst)) )
               => r.result = "invalid move"

\* C2 witness: a handler's input was rejected
InvalidMoveReturned == pc = "loop" /\ ~success /\ result = "invalid move"

\* C3 as stated: below the turn limit no winner whenever both AIs are dead
HasWinnerAsClaimed ==
    LET w == has_winner(Self, options.max_turns)
    IN  IF turns_played >= options.max_turns THEN w = Defender
        ELSE IF attacker_has_ai /\ ~defender_has_ai THEN w = Attacker
        ELSE IF ~attacker_has_ai /\ defender_has_ai THEN w = Defender
        ELSE w = NoPlayer

\* C3 (amended): has_winner returns Defender at the turn limit; below it,
\* Attacker when only the Defender's AI is dead, Defender when the
\* Attacker's AI is dead (whether or not the Defender's AI is dead too), and
\* no winner only when both AIs are alive.
HasWinnerByFlags ==
    LET w == has_winner(Self, options.max_turns)
    IN  IF turns_played >= options.max_turns THEN w = Defender
        ELSE IF attacker_has_ai /\ ~defender_has_ai THEN w = Attacker
        ELSE IF ~attacker_has_ai THEN w = Defender
        ELSE w = NoPlayer

\* C3 witness: both AIs died in one action below the turn limit, and the
\* Defender was declared the winner
BothAIsDead ==
    /\ ~attacker_has_ai
    /\ ~defender_has_ai
    /\ turns_played < options.max_turns
    /\ pc = "done"
    /\ winner = Defender

\* C4: once turns_played has reached max_turns has_winner returns Defender,
\* whatever the AI flags say, and that is the winner main declares.
TurnLimitFirst ==
    turns_played >= options.max_turns =>
        /\ has_winner(Self, options.max_turns) = Defender
        /\ pc = "done" => winner = Defender

\* C4 witness: the Attacker killed the Defender's AI with the action that
\* reached the turn limit
TurnLimitBeatsKill ==
    /\ turns_played >= options.max_turns
    /\ attacker_has_ai
    /\ ~defender_has_ai
    /\ success
    /\ pc = "done"

PlayerHasAI(p) ==
    \E x \in Coords : board[x].player = p /\ board[x].type = "AI"

\* C5: each AI-alive flag is true exactly when a unit of type AI of that
\* player is on the grid.
AIFlagsConsistent ==
    /\ attacker_has_ai <=> PlayerHasAI(Attacker)
    /\ defender_has_ai <=> PlayerHasAI(Defender)

\* C5 witness: an AI was removed by an attack
AIKilledByAttack == result = "attack" /\ ~defender_has_ai /\ attacker_has_ai

\* C6: every unit on the grid has health in 1..9.
HealthInRange ==
    \A x \in Coords :
        board[x] # None =>
            /\ board[x].health \in 1 .. 9
            /\ board[x].player \in Player
            /\ board[x].type \in UnitType

\* C6 witness: the target of an attack reached 0 and its cell was emptied
TargetRemoved == success /\ result = "attack" /\ board[mv.dst] = None

\* C7: turns_played never decreases; a turn whose perform_move succeeded
\* adds exactly 1, a turn whose input was rejected and every other step of
\* the game loop leave it unchanged.
TurnsPlayedCounts ==
    [][ /\ turns_played' >= turns_played
        /\ (Playing /\ pc' = "loop") =>
              turns_played' = IF success' THEN turns_played + 1 ELSE turns_played
        /\ ~(Playing /\ pc' = "loop") => turns_played' = turns_played ]_vars

\* C7 witness: two turns were completed from the standard layout
TwoTurnsPlayed == success /\ turns_played = 2

\* C8: on every board the game loop plays on, an attack from A (source) on
\* B (destination) leaves A with
\* hA - min(damage_table[B][A], hA) and B with hB - min(damage_table[A][B], hB),
\* both from the health before the call, also when A dies; a unit that
\* reaches 0 is removed; no other cell changes.
AttackMutual ==
    Playing => \A c \in Moves :
        LET g == Self
            r == perform_move(g, c)
        IN  r.result = "attack" =>
                LET A == g.board[c.src]
                    B == g.board[c.dst]
                    toA == Min(damage_table[TypeIndex(B.type)][TypeIndex(A.type)], A.health)
                    toB == Min(damage_table[TypeIndex(A.type)][TypeIndex(B.type)], B.health)
                    After(u, d) ==
                        IF u.health - d = 0 THEN None
                        ELSE [u EXCEPT !.health = u.health - d]
                IN  /\ toA >= 1 /\ toB >= 1
                    /\ A.health - toA >= 0 /\ B.health - toB >= 0
                    /\ r.game.board[c.src] = After(A, toA)
                    /\ r.game.board[c.dst] = After(B, toB)
                    /\ Changed(g, r.game) \subseteq {c.src, c.dst}

\* C8 witness: the attacking unit died of the return damage and its target
\* is still on the board
AttackerDiedAttacking ==
    success /\ result = "attack" /\ board[mv.src] = None /\ board[mv.dst] # None

\* C9: on every board the game loop plays on, a repair adds
\* min(repair_table[source][target], 9 - health), at least 1, to the
\* target's health and changes nothing else; a target at health 9 or with
\* table entry 0 is never repaired.
RepairEffect ==
    Playing => \A c \in Moves :
        LET g == Self
            r == perform_move(g, c)
            S == get(g, c.src)
            T == get(g, c.dst)
        IN  /\ r.result = "repair" =>
                LET amount == Min(repair_table[TypeIndex(S.type)][TypeIndex(T.type)],
                                  9 - T.health)
                IN  /\ amount >= 1
                    /\ T.health + amount <= 9
                    /\ r.game.board[c.dst] = [T EXCEPT !.health = T.health + amount]
                    /\ Changed(g, r.game) = {c.dst}
                    /\ SameFlags(g, r.game)
            /\ (S # None /\ T # None /\
                (T.health = 9 \/ repair_table[TypeIndex(S.type)][TypeIndex(T.type)] = 0))
               => r.result # "repair"

\* C9 witness: a repair brought its target to full health
RepairedToFull == success /\ result = "repair" /\ board[mv.dst].health = 9

\* the five conditions C10 lists
RepairConditions(g, c) ==
    LET S == get(g, c.src)
        T == get(g, c.dst)
    IN  /\ S # None
        /\ T # None
        /\ is_adjacent(c.src, c.dst)
        /\ S.player = T.player
        /\ repair_table[TypeIndex(S.type)][TypeIndex(T.type)] # 0
        /\ T.health < 9

\* C10 as stated: on every board the game loop plays on, is_valid_to_repair
\* holds exactly under the five conditions, whoever is to move
RepairValidWhoeverMoves ==
    Playing => \A c \in Moves :
        is_valid_to_repair(Self, c) <=> RepairConditions(Self, c)

\* C10 (amended): on every board the game loop plays on, is_valid_to_repair
\* holds exactly when the five conditions hold and the source unit belongs
\* to the player to move.
RepairValidForMover ==
    Playing => \A c \in Moves :
        is_valid_to_repair(Self, c) <=>
            (RepairConditions(Self, c) /\ get(Self, c.src).player = next_player)

\* C10 witness: a repair that meets the five conditions is refused to the
\* player who is not to move, after a turn was played
RepairRefusedOffTurn ==
    /\ success
    /\ \E c \in Moves :
          /\ RepairConditions(Self, c)
          /\ get(Self, c.src).player # next_player
          /\ ~is_valid_to_repair(Self, c)
          /\ perform_move(Self, c).result = "invalid move"

\* the 3x3 block centred on s, clipped to the board
Block(s) == {x \in Coords : Abs(x[1] - s[1]) <= 1 /\ Abs(x[2] - s[2]) <= 1}

\* player p has a unit of type AI on the board of game g
HasAIOn(g, p) ==
    \E x \in Coords : g.board[x].player = p /\ g.board[x].type = "AI"

\* C11: on every board the game loop plays on, a self-destruct at cell s
\* removes the acting unit; every other unit in the 3x3 block centred on s
\* (clipped to the board) has its health lowered by 2 and is removed when
\* that reaches 0 or less; cells outside the block are unchanged; an
\* AI-alive flag is cleared exactly when that player's AI was removed.
SelfDestructEffect ==
    Playing => \A c \in Moves :
        LET g == Self
            r == perform_move(g, c)
            h == r.game
            s == c.src
        IN  r.result = "self-destruct" =>
                /\ c.dst = s
                /\ g.board[s] # None
                /\ h.board[s] = None
                /\ \A x \in Block(s) \ {s} :
                      h.board[x] =
                        IF g.board[x] = None \/ g.board[x].health - 2 <= 0
                        THEN None
                        ELSE [g.board[x] EXCEPT !.health = g.board[x].health - 2]
                /\ \A x \in Coords \ Block(s) : h.board[x] = g.board[x]
                /\ h.attacker_has_ai = (g.attacker_has_ai /\ HasAIOn(h, Attacker))
                /\ h.defender_has_ai = (g.defender_has_ai /\ HasAIOn(h, Defender))
                /\ SameTurn(g, h)

\* C11 witness: a self-destruct removed the acting unit and the Defender's
\* AI diagonal or next to it, and a unit in the block survived it damaged
SelfDestructKilledAI ==
    /\ success
    /\ result = "self-destruct"
    /\ board[mv.src] = None
    /\ ~defender_has_ai
    /\ \E x \in Block(mv.src) : board[x] # None /\ board[x].health < 9

\* the number of units on the board of game g
UnitCount(g) == Cardinality({x \in Coords : g.board[x] # None})

\* C12: on every board the game loop plays on, a plain move resolved by
\* perform_move puts the unit, with its owner, type and health, on the
\* destination, empties the source, and leaves every other cell,
\* next_player, turns_played, both AI-alive flags and the number of units
\* unchanged.
PlainMoveFrame ==
    Playing => \A c \in Moves :
        LET g == Self
            r == perform_move(g, c)
            h == r.game
        IN  r.result = "move" =>
                /\ g.board[c.src] # None
                /\ h.board[c.dst] = g.board[c.src]
                /\ h.board[c.src] = None
                /\ \A x \in Coords \ {c.src, c.dst} : h.board[x] = g.board[x]
                /\ SameTurn(g, h)
                /\ SameFlags(g, h)
                /\ UnitCount(h) = UnitCount(g)

\* C12 witness: a turn was resolved as a plain move of a damaged unit,
\* which is on the destination with the source empty
PlainMoveDone ==
    /\ success
    /\ result = "move"
    /\ board[mv.src] = None
    /\ board[mv.dst] # None
    /\ board[mv.dst].health < 9

\* the four steps from a cell
Down(s) == <<s[1] + 1, s[2]>>
Right(s) == <<s[1], s[2] + 1>>
Up(s) == <<s[1] - 1, s[2]>>
Left(s) == <<s[1], s[2] - 1>>

\* a unit of the player to move stands on c.src, and c.dst is an empty cell
\* of the board one orthogonal step away
FreeStep(g, c) ==
    /\ is_valid_coord(c.src)
    /\ is_valid_coord(c.dst)
    /\ g.board[c.src] # None
    /\ g.board[c.src].player = g.next_player
    /\ c.dst \in {Down(c.src), Right(c.src), Up(c.src), Left(c.src)}
    /\ g.board[c.dst] = None

\* C13: on every board the game loop plays on, for an Attacker's AI,
\* Firewall or Program a step down or right, and for a Defender's AI,
\* Firewall or Program a step up or left, is never a valid move and
\* perform_move never returns "move" for it; a Tech or Virus of the player
\* to move may step in each of the four directions onto an empty cell.
DirectionRule ==
    Playing => \A c \in Moves :
        LET g == Self
            u == get(g, c.src)
        IN  u # None =>
              /\ ( /\ u.type \in {"AI", "Firewall", "Program"}
                   /\ \/ u.player = Attacker /\ c.dst \in {Down(c.src), Right(c.src)}
                      \/ u.player = Defender /\ c.dst \in {Up(c.src), Left(c.src)} )
                 => ( ~is_valid_move(g, c) /\ perform_move(g, c).result # "move" )
              /\ ( u.type \in {"Tech", "Virus"} /\ FreeStep(g, c) )
                 => ( is_valid_move(g, c) /\ perform_move(g, c).result = "move" )

\* C13 witness: after a turn, a unit of the player to move that is not
\* engaged has an empty cell in a direction its type may not take, and the
\* step is rejected; a Tech or Virus has taken a step in that direction
DirectionBlocksMove ==
    /\ success
    /\ Playing
    /\ \E c \in Moves :
          /\ FreeStep(Self, c)
          /\ board[c.src].type \in {"AI", "Firewall", "Program"}
          /\ ~is_engaged_in_combat(Self, c.src)
          /\ ~is_valid_move(Self, c)
          /\ perform_move(Self, c).result = "invalid move"
    /\ result = "move"
    /\ board[mv.dst] # None
    /\ board[mv.dst].type \in {"Tech", "Virus"}
    /\ \/ board[mv.dst].player = Attacker /\ mv.dst \in {Down(mv.src), Right(mv.src)}
       \/ board[mv.dst].player = Defender /\ mv.dst \in {Up(mv.src), Left(mv.src)}

\* an enemy of the unit on cell s stands on one of its four neighbour cells
EnemyNextTo(g, s) ==
    \E x \in Coords :
        /\ Abs(x[1] - s[1]) + Abs(x[2] - s[2]) = 1
        /\ g.board[x] # None
        /\ g.board[x].player # g.board[s].player

\* C14: on every board the game loop plays on, an AI, Firewall or Program
\* with an enemy on one of its four neighbour cells has no valid plain move
\* and perform_move never returns "move" for it; for a Tech or Virus
\* is_valid_move is decided by the turn, the adjacency and the emptiness of
\* the destination alone, engaged or not.
EngagementRule ==
    Playing => \A c \in Moves :
        LET g == Self
            u == get(g, c.src)
        IN  u # None =>
              /\ ( u.type \in {"AI", "Firewall", "Program"} /\ EnemyNextTo(g, c.src) )
                 => ( ~is_valid_move(g, c) /\ perform_move(g, c).result # "move" )
              /\ u.type \in {"Tech", "Virus"}
                 => ( is_valid_move(g, c) <=> FreeStep(g, c) )

\* C14 witness: an engaged Tech or Virus has taken a step, and an engaged
\* AI, Firewall or Program of the player now to move has an empty cell in
\* a direction its type may take and cannot step on it
EngagedUnitBlocked ==
    /\ success
    /\ result = "move"
    /\ board[mv.dst] # None
    /\ board[mv.dst].type \in {"Tech", "Virus"}
    /\ \E x \in Coords :
          /\ Abs(x[1] - mv.src[1]) + Abs(x[2] - mv.src[2]) = 1
          /\ board[x] # None
          /\ board[x].player # board[mv.dst].player
    /\ Playing
    /\ \E c \in Moves :
          /\ FreeStep(Self, c)
          /\ board[c.src].type \in {"AI", "Firewall", "Program"}
          /\ EnemyNextTo(Self, c.src)
          /\ \/ next_player = Attacker /\ c.dst \in {Up(c.src), Left(c.src)}
             \/ next_player = Defender /\ c.dst \in {Down(c.src), Right(c.src)}
          /\ ~is_valid_move(Self, c)

\* the searches compared on a board go down to this depth
SearchDepth == 2

Heuristics == {"e0", "e1", "e2"}

\* the options of the game with the search settings replaced
SearchOptions(d, ab, heur) ==
    [options EXCEPT !.max_depth = d, !.alpha_beta = ab, !.heuristic = heur]

\* the counters before any search
NoCounts == [map |-> << >>, nb_of_leaf_nodes |-> 0]

\* C15: on every board a game with a computer plays on, for every depth
\* and heuristic, minimax called at the root with the full window returns
\* the same score (and the same move) with alpha_beta enabled as with
\* alpha_beta disabled.
AlphaBetaSameScore ==
    Playing => \A d \in 0 .. SearchDepth, heur \in Heuristics :
        LET pruned == search(Self, SearchOptions(d, TRUE, heur), NoCounts)
            full == search(Self, SearchOptions(d, FALSE, heur), NoCounts)
        IN  /\ pruned.score = full.score
            /\ pruned.move = full.move

\* C15 witness: after a turn of the game, the search with alpha_beta
\* enabled cuts branches off (it expands fewer nodes at the deepest level
\* than the search without) and returns the same score
PruningCutBranches ==
    /\ success
    /\ Playing
    /\ LET pruned == search(Self, SearchOptions(SearchDepth, TRUE, options.heuristic), NoCounts)
           full == search(Self, SearchOptions(SearchDepth, FALSE, options.heuristic), NoCounts)
       IN  /\ 1 \in DOMAIN pruned.st.map
           /\ pruned.st.map[1] < full.st.map[1]
           /\ pruned.score = full.score

\* C16: on every board a computer is to move on, the search suggest_move
\* runs leaves the live game (grid, units' health, next_player,
\* turns_played and both AI-alive flags) exactly as it was, whatever it
\* returns.
SearchLeavesLiveGame ==
    (Playing /\ ~IsHumanTurn) =>
        search(Self, options, [map |-> map, nb_of_leaf_nodes |-> nb_of_leaf_nodes]).game = Self

\* C16 witness: after turns were played, a search that expanded nodes at
\* two depths was discarded for its time, and main() has exited
SearchDiscarded ==
    /\ pc = "exit"
    /\ success
    /\ turns_played >= 2
    /\ 1 \in DOMAIN map
    /\ 2 \in DOMAIN map

\* C17 as stated: on every board a computer is to move on, suggest_move
\* returns no move exactly when the search timed out, and otherwise
\* returns a move that perform_move accepts on the live board.
SuggestMoveNoneOnlyOnTimeout ==
    (Playing /\ ~IsHumanTurn) =>
        \A timed_out \in BOOLEAN :
            LET s == search(Self, options, [map |-> map, nb_of_leaf_nodes |-> nb_of_leaf_nodes])
                suggested == suggest_move(s, options, timed_out)
            IN  /\ ~suggested.raised
                /\ suggested.move = NoMove <=> timed_out
                /\ ~timed_out => perform_move(s.game, suggested.move).success

\* every pair of cells of the board, and the pairs a handler may submit
AllPairs == Moves \cup {CoordPair(x, y) : x \in Coords, y \in Coords}

\* the moves move_candidates yields on the live game
Generated == {move_candidates(Self)[i] : i \in 1 .. Len(move_candidates(Self))}

\* C18: on every board the game loop plays on, the moves move_candidates
\* yields are exactly the coordinate pairs perform_move accepts for the
\* player to move: every generated move succeeds and no accepted action is
\* missing.
GeneratorIsExact ==
    Playing => Generated = {c \in AllPairs : perform_move(Self, c).success}

\* C18 witness: after a turn, the generator yields a plain move, an attack,
\* a repair and a self-destruct for the player to move
GeneratorYieldsAllKinds ==
    /\ success
    /\ Playing
    /\ \A kind \in {"move", "attack", "repair", "self-destruct"} :
          \E c \in Generated : perform_move(Self, c).result = kind

\* C19: once has_winner returns a player the game loop applies no further
\* action: the grid, next_player, turns_played and both AI-alive flags
\* never change again, the winner main() declares is that player, and
\* once declared it never changes.
WinnerAbsorbing ==
    [][ has_winner(Self, options.max_turns) # NoPlayer =>
          /\ board' = board
          /\ next_player' = next_player
          /\ turns_played' = turns_played
          /\ attacker_has_ai' = attacker_has_ai
          /\ defender_has_ai' = defender_has_ai
          /\ has_winner(Self, options.max_turns)' = has_winner(Self, options.max_turns)
          /\ pc' = "done"
          /\ winner' = has_winner(Self, options.max_turns)
          /\ pc = "done" => winner' = winner ]_vars

\* C19 witness: the Attacker killed the Defender's AI below the turn limit
\* and was declared the winner
AttackerWonDeclared ==
    /\ pc = "done"
    /\ winner = Attacker
    /\ ~defender_has_ai
    /\ success
    /\ turns_played < options.max_turns

\* the Attacker's Viruses next to the Attacker's AI in the standard layout
AIAdjacentViruses ==
    {x \in Coords : /\ post_init_board[x] = Unit(Attacker, "Virus", 9)
                    /\ \E y \in Coords : /\ post_init_board[y] = Unit(Attacker, "AI", 9)
                                          /\ is_adjacent(x, y)}

\* the first action of a game from the standard layout was the
\* self-destruct of one of those Viruses
VirusSelfDestructedFirst ==
    /\ turns_played = 1
    /\ success
    /\ result = "self-destruct"
    /\ mv.src \in AIAdjacentViruses

\* C20 as stated: that self-destruct removes the Virus and leaves a
\* Firewall of each camp damaged by 2, from health 9 to 7
BothCampsFirewallsDamaged ==
    VirusSelfDestructedFirst =>
        /\ board[mv.src] = None
        /\ \A p \in Player :
              \E x \in Coords : /\ post_init_board[x] = Unit(p, "Firewall", 9)
                                /\ board[x] = Unit(p, "Firewall", 7)

\* C20 (amended): that self-destruct removes the Virus and leaves the
\* Attacker's Firewall next to it, and every other unit of the 3x3 block,
\* damaged by exactly 2 (health 9 to 7); no unit of the Defender is in the
\* block, and both Firewalls of the Defender keep health 9.
AttackerFirewallDamaged ==
    VirusSelfDestructedFirst =>
        /\ board[mv.src] = None
        /\ \E x \in Block(mv.src) :
              /\ is_adjacent(x, mv.src)
              /\ post_init_board[x] = Unit(Attacker, "Firewall", 9)
              /\ board[x] = Unit(Attacker, "Firewall", 7)
        /\ \A x \in Coords \ {mv.src} :
              board[x] = IF x \in Block(mv.src) /\ post_init_board[x] # None
                         THEN [post_init_board[x] EXCEPT !.health = 7]
                         ELSE post_init_board[x]
        /\ \A x \in Block(mv.src) : post_init_board[x].player # Defender
        /\ \A x \in Coords :
              post_init_board[x] = Unit(Defender, "Firewall", 9) => board[x] = post_init_board[x]

\* C20 witness: the Virus above the Attacker's AI self-destructed as the
\* first action and the Attacker's Firewall is at health 7
VirusGoneFirewallAtSeven ==
    /\ VirusSelfDestructedFirst
    /\ board[mv.src] = None
    /\ \E x \in Coords : board[x] = Unit(Attacker, "Firewall", 7)
    /\ \A x \in Coords : board[x].player = Defender => board[x].health = 9


\* the pairs of two different occupied cells whose units have one owner
OwnSidePairs ==
    {c \in {CoordPair(x, y) : x \in Coords, y \in Coords} :
        /\ c.src # c.dst
        /\ board[c.src] # None
        /\ board[c.dst] # None
        /\ board[c.src].player = board[c.dst].player}

\* C21: on every board the game loop plays on, perform_move of a unit
\* onto another cell that holds a unit of the same side is a repair when
\* is_valid_to_repair holds and otherwise is rejected with "invalid move"
\* and no change; it is never a plain move or an attack.  The Attacker's
\* AI onto the Attacker's Firewall is always rejected.
OwnCellRepairOrInvalid ==
    Playing =>
        /\ \A h \in 1 .. 9, k \in 1 .. 9 :
              repair_amount(Unit(Attacker, "AI", h), Unit(Attacker, "Firewall", k)) = 0
        /\ \A c \in OwnSidePairs :
              LET r == perform_move(Self, c)
              IN  /\ r.result \notin {"move", "attack", "self-destruct"}
                  /\ IF is_valid_to_repair(Self, c) /\ RepairConditions(Self, c)
                     THEN r.success /\ r.result = "repair"
                     ELSE ~r.success /\ r.result = "invalid move" /\ r.game = Self
                  /\ (/\ board[c.src] = Unit(Attacker, "AI", board[c.src].health)
                      /\ board[c.dst] = Unit(Attacker, "Firewall", board[c.dst].health))
                     => ~r.success /\ r.result = "invalid move" /\ r.game = Self

\* C21 witness: with the Attacker to move, a submitted action was just
\* rejected with "invalid move", and the move of the Attacker's AI onto
\* the cell of the Attacker's Firewall is among the actions a handler may
\* submit and perform_move rejects
AIOntoOwnFirewallRejected ==
    /\ Playing
    /\ ~success
    /\ result = "invalid move"
    /\ next_player = Attacker
    /\ \E c \in OwnSidePairs \cap Moves :
          /\ board[c.src].player = Attacker
          /\ board[c.src].type = "AI"
          /\ board[c.dst].type = "Firewall"
          /\ perform_move(Self, c).result = "invalid move"


Max(a, b) == IF a > b THEN a ELSE b

\* C22: a unit that starts with health in 0..9 has health in 0..9 after
\* any sequence of mod_health calls with positive or negative deltas, and
\* each call leaves health = max(0, min(9, health + delta)) and the
\* player and type as they were.
ModHealthClamps ==
    /\ [](unit.health \in 0 .. 9)
    /\ [][ /\ unit'.health = Max(0, Min(9, unit.health + health_delta'))
           /\ unit'.player = unit.player
           /\ unit'.type = unit.type ]_vars

\* C22 witness: a call with a delta of 10 left the unit at health 9: the
\* sum was above 9 whatever the health before
ModHealthCapped == unit # None /\ health_delta >= 10 /\ unit.health = 9


\* the turn limits of the games explored, and the largest of them
TurnLimits == {start.options.max_turns : start \in Starts}

LastTurn == CHOOSE n \in TurnLimits : \A m \in TurnLimits : m <= n

\* the game has no winner and n actions have been completed
OnTurn(n) == has_winner(Self, options.max_turns) = NoPlayer /\ turns_played = n

\* C23: with max_turns = N, has_winner is a player whenever N actions
\* have been completed, so a game without a winner has completed fewer
\* than N; in every state without a winner the player to move has an
\* action that perform_move accepts; and every game in which no turn
\* lasts forever (its player eventually submits an accepted action)
\* reaches a state where has_winner is a player, and main() declares it.
GameTerminates ==
    /\ [](turns_played >= options.max_turns => has_winner(Self, options.max_turns) # NoPlayer)
    /\ [](has_winner(Self, options.max_turns) = NoPlayer =>
            /\ turns_played < options.max_turns
            /\ \E c \in Generated :
                  /\ is_valid_coord(c.src) /\ is_valid_coord(c.dst)
                  /\ get(Self, c.src).player = next_player
                  /\ perform_move(Self, c).success)
    /\ (\A n \in 0 .. LastTurn : []<>~OnTurn(n)) =>
           <>(/\ has_winner(Self, options.max_turns) # NoPlayer
              /\ turns_played <= options.max_turns
              /\ pc = "done"
              /\ winner = has_winner(Self, options.max_turns))

\* C23 witness: the turn limit ended a game in which both AIs are alive,
\* after an accepted action
TurnLimitEndedGame ==
    /\ success
    /\ turns_played = options.max_turns
    /\ attacker_has_ai /\ defender_has_ai
    /\ pc = "done"
    /\ winner = Defender


\* the program's two counters at their current values, with the record of
\* the calls of minimax
Traced ==
    [map |-> map, nb_of_leaf_nodes |-> nb_of_leaf_nodes, nodes |-> {},
     calls |-> 0, leaf_calls |-> 0]

\* the calls of minimax made by the search suggest_move runs on the live game
SearchNodes == search(Self, options, Traced).st.nodes

\* C24: on every board a computer is to move on, at every call of minimax
\* of the search suggest_move starts, is_maximizing_player is true exactly
\* when the node's next_player is the maximizing (perspective) player,
\* who is the player to move at the root; the candidates expanded at the
\* node are actions of the node's next_player; and the score of a leaf
\* is the heuristic computed for the perspective player.
MaximizingIffPerspective ==
    (Playing /\ ~IsHumanTurn) =>
        \A n \in SearchNodes :
            /\ n.maximizing_player = next_player
            /\ n.is_maximizing_player <=> (n.game.next_player = n.maximizing_player)
            /\ n.leaf => n.score = evaluate(n.game, next_player, options)
            /\ ~n.leaf =>
                  \A i \in 1 .. Len(move_candidates(n.game)) :
                      get(n.game, move_candidates(n.game)[i].src).player =
                          (IF n.is_maximizing_player THEN next_player
                                                     ELSE PlayerNext(next_player))

\* C24 witness: after a turn of the game, a search of the Defender's
\* computer visits maximizing and minimizing nodes and leaves whose score
\* differs from the one the Attacker's viewpoint gives
BothKindsOfNodeVisited ==
    /\ Playing /\ ~IsHumanTurn
    /\ success
    /\ next_player = Defender
    /\ \E n \in SearchNodes : ~n.leaf /\ ~n.is_maximizing_player /\ n.game.next_player = Attacker
    /\ \E n \in SearchNodes : ~n.leaf /\ n.is_maximizing_player /\ n.depth = options.max_depth
    /\ \E n \in SearchNodes :
          n.leaf /\ n.score # evaluate(n.game, Attacker, options)


\* the global counters as the search of the computer to move leaves them
AfterSearch ==
    search(Self, options, [map |-> map, nb_of_leaf_nodes |-> nb_of_leaf_nodes]).st

\* C25 as stated: after the search of every computer turn with
\* max_depth >= 1, sort_map has a count for every depth 1 .. max_depth,
\* the counts add up to the total of get_cumulative_evals, which is
\* positive, and so the percentages value / total * 100 add up to 100.
PerDepthReportDefined ==
    (Playing /\ ~IsHumanTurn /\ options.max_depth >= 1) =>
        /\ sort_map_defined(AfterSearch.map, options)
        /\ get_cumulative_evals(AfterSearch.map, options) > 0
        /\ SumTo([key \in 1 .. options.max_depth |->
                     100 * sort_map(AfterSearch.map, options)[key]], options.max_depth)
              = 100 * get_cumulative_evals(AfterSearch.map, options)


\* the counters and the record of calls after the search of the computer
\* to move
TracedSearch == search(Self, options, Traced).st

\* C26 as stated: after the first search of a game with max_depth >= 1
\* whose per-depth report is defined, the dividend of
\* get_avg_branching_factor is the number of nodes the search visited,
\* root included, minus 1, and its divisor is the number of visited nodes
\* that are not leaves, which is positive.
BranchingFactorAsSpecified ==
    (/\ Playing /\ ~IsHumanTurn
     /\ options.max_depth >= 1
     /\ map = << >> /\ nb_of_leaf_nodes = 0
     /\ sort_map_defined(TracedSearch.map, options)) =>
        LET total == get_cumulative_evals(TracedSearch.map, options)
            nb_of_non_root_nodes == total - 1
            nb_of_non_leaf_nodes == total - TracedSearch.nb_of_leaf_nodes
        IN  /\ nb_of_non_leaf_nodes > 0
            /\ nb_of_non_root_nodes = TracedSearch.calls - 1
            /\ nb_of_non_leaf_nodes = TracedSearch.calls - TracedSearch.leaf_calls


\* the count map m holds for depth d: map.get(d, 0)
CountAt(m, d) == IF d \in DOMAIN m THEN m[d] ELSE 0

NoTrace == [map |-> << >>, nb_of_leaf_nodes |-> 0, nodes |-> {}, calls |-> 0, leaf_calls |-> 0]

\* the two searches of the board of the computer to move, from counters
\* at zero: with alpha_beta enabled and with alpha_beta disabled
Pruned(d, heur) == search(Self, SearchOptions(d, TRUE, heur), NoTrace).st
Unpruned(d, heur) == search(Self, SearchOptions(d, FALSE, heur), NoTrace).st

\* C27: on every board a computer is to move on, for every depth up to
\* max_depth and the heuristic of the game: the search with alpha_beta enabled
\* enters no node with beta <= alpha (the siblings left when beta <= alpha
\* are not expanded) and adds to the count of every depth and to the leaf
\* counter no more than the search with alpha_beta disabled, which keeps
\* the full window at every node and counts every candidate of the root.
PruningNeverCountsMore ==
    (Playing /\ ~IsHumanTurn) =>
        \A d \in 0 .. options.max_depth :
            LET heur == options.heuristic
                pruned == Pruned(d, heur)
                unpruned == Unpruned(d, heur)
            IN  /\ \A k \in 0 .. d : CountAt(pruned.map, k) <= CountAt(unpruned.map, k)
                /\ pruned.nb_of_leaf_nodes <= unpruned.nb_of_leaf_nodes
                /\ pruned.calls <= unpruned.calls
                /\ \A n \in pruned.nodes : n.alpha < n.beta
                /\ \A n \in unpruned.nodes :
                      n.alpha = MIN_HEURISTIC_SCORE /\ n.beta = MAX_HEURISTIC_SCORE
                /\ d >= 1 => CountAt(unpruned.map, d) = Len(move_candidates(Self))

\* C27 witness: after a turn of the game, the search of the computer to
\* move, run at the depth and with the heuristic of the game, counts
\* fewer nodes at depth 1 and fewer leaves with alpha_beta enabled than
\* with alpha_beta disabled
PruningCountedLess ==
    /\ Playing /\ ~IsHumanTurn
    /\ success
    /\ options.max_depth >= 2
    /\ LET pruned == Pruned(options.max_depth, options.heuristic)
           unpruned == Unpruned(options.max_depth, options.heuristic)
       IN  /\ CountAt(pruned.map, 1) < CountAt(unpruned.map, 1)
           /\ pruned.nb_of_leaf_nodes < unpruned.nb_of_leaf_nodes
           /\ CountAt(pruned.map, options.max_depth) = CountAt(unpruned.map, options.max_depth)


\* what the unit u adds to the material of player p: 9999 for an AI of p,
\* 3 for any other unit of p, nothing for an empty cell or a unit of the
\* other player
Worth(u, p) ==
    IF u = None \/ u.player # p THEN 0
    ELSE IF u.type = "AI" THEN 9999
    ELSE 3

RECURSIVE Material(_, _, _)
\* the material of player p on the first i cells of the board, row by row
Material(g, p, i) ==
    IF i = 0 THEN 0
    ELSE Worth(g.board[iter_rectangle[i]], p) + Material(g, p, i - 1)

\* C28: on every board the games reach and for either perspective
\* player, heuristic_e0 is 3 x (number of the player's Virus, Tech,
\* Firewall and Program units) + 9999 x (number of its AIs), minus the
\* same for the opponent; a search of depth 0, which only computes the
\* heuristic of the live game, returns that score and leaves the game as
\* it was.
E0IsMaterialDifference ==
    \A p \in Player :
        /\ heuristic_e0(Self, p) =
              Material(Self, p, Dim * Dim) - Material(Self, PlayerNext(p), Dim * Dim)
        /\ LET leaf == minimax(Self, 0, TRUE, p, MIN_HEURISTIC_SCORE, MAX_HEURISTIC_SCORE,
                               SearchOptions(0, TRUE, "e0"), NoCounts)
           IN  /\ leaf.game = Self
               /\ leaf.score = Material(Self, p, Dim * Dim)
                                 - Material(Self, PlayerNext(p), Dim * Dim)

\* C28 witness: an accepted action killed the Defender's AI while the
\* Defender has at least as many other units, and e0 for the Attacker is
\* 9999 minus 3 for each unit the Defender has more
E0AfterAIKilled ==
    /\ success
    /\ ~defender_has_ai
    /\ attacker_has_ai
    /\ heuristic_e0(Self, Attacker) <= 9999
    /\ heuristic_e0(Self, Attacker) > 9000
    /\ heuristic_e0(Self, Defender) = 0 - heuristic_e0(Self, Attacker)


\* the validity checks of perform_move that accept the pair c on the game g
Accepting(g, c) ==
    {k \in {"move", "attack", "repair", "self-destruct"} :
        \/ k = "move" /\ is_valid_move(g, c)
        \/ k = "attack" /\ is_valid_to_attack(g, c)
        \/ k = "repair" /\ is_valid_to_repair(g, c)
        \/ k = "self-destruct" /\ is_valid_to_self_destruct(g, c)}

\* C29: on every board the game loop plays on and for every coordinate
\* pair (on the board or relayed from outside it), at most one of
\* is_valid_move, is_valid_to_attack, is_valid_to_repair and
\* is_valid_to_self_destruct holds, and perform_move resolves the pair as
\* that one.
ValidityChecksExclusive ==
    Playing => \A c \in AllPairs :
        /\ Cardinality(Accepting(Self, c)) <= 1
        /\ Accepting(Self, c) # {} => Accepting(Self, c) = {perform_move(Self, c).result}

\* C29 witness: after a turn of the game, one unit of the player to move
\* has a plain move, an attack, a repair and its self-destruct open, each
\* on another pair and each pair accepted by one check only
OneUnitFourKinds ==
    /\ Playing
    /\ success
    /\ \E s \in Coords :
          \A k \in {"move", "attack", "repair", "self-destruct"} :
              \E d \in Coords : Accepting(Self, CoordPair(s, d)) = {k}


\* the player to move on g is Attacker exactly when turns_played is even
AttackerOnEven(g) == (g.next_player = Attacker) <=> (g.turns_played % 2 = 0)

\* C30: in every state of the game loop next_player is Attacker exactly
\* when turns_played is even, and so it is at every call of minimax of a
\* search started from such a state, whose game is as many turns ahead of
\* the live game as the call is below the root; every step of the game
\* loop that completes an action hands the move to the other player, and
\* every other step leaves the player to move alone.
PlayerAlternates ==
    /\ [](/\ (next_player = Attacker) <=> (turns_played % 2 = 0)
          /\ (Playing /\ ~IsHumanTurn) =>
                \A n \in SearchNodes :
                    /\ AttackerOnEven(n.game)
                    /\ n.game.turns_played = turns_played + (options.max_depth - n.depth))
    /\ [][ IF turns_played' # turns_played
           THEN next_player' = PlayerNext(next_player) /\ next_player' # next_player
           ELSE next_player' = next_player ]_vars

\* C30 witness: Attacker then Defender completed an action, Attacker is to
\* move again on turn 2, and the computer's search from there reaches games
\* one turn ahead with Defender to move and two ahead with Attacker to move
AlternatedIntoSearch ==
    /\ Playing /\ ~IsHumanTurn
    /\ success
    /\ turns_played = 2 /\ next_player = Attacker
    /\ \E n \in SearchNodes : n.game.turns_played = 3 /\ n.game.next_player = Defender
    /\ \E n \in SearchNodes : n.game.turns_played = 4 /\ n.game.next_player = Attacker


\* the output of the Move Generator for the player p on the board of g:
\* the candidates p has when p is the player to move
GeneratorOutput(g, p) == move_candidates([g EXCEPT !.next_player = p])

\* C31 as stated: on every board the games reach and for either player p,
\* whichever side is to move, the legal-move count heuristic_e2 uses for p,
\* the length of get_moves_for_player(p), is the number of moves, attacks,
\* repairs and self-destructs the Move Generator yields for p; for the
\* player who is not to move it is not only one self-destruct per unit
\* whenever that player has a plain move, an attack or a repair.
LegalMoveCountIsGeneratorOutput ==
    \A p \in Player :
        Len(get_moves_for_player(Self, p)) = Len(GeneratorOutput(Self, p))


\* the live game with the given player to move
WithMover(np) == [Self EXCEPT !.next_player = np]

\* C32: on every board the games reach, with either player to move, each
\* of heuristic_e0, heuristic_e1 and heuristic_e2 from the Attacker's
\* perspective is the negation of its value from the Defender's
\* perspective, and so is the evaluation a leaf of minimax returns.
HeuristicsZeroSum ==
    \A np \in Player :
        LET g == WithMover(np)
        IN  /\ heuristic_e0(g, Attacker) = 0 - heuristic_e0(g, Defender)
            /\ heuristic_e1(g, Attacker) = 0 - heuristic_e1(g, Defender)
            /\ heuristic_e2(g, Attacker) = 0 - heuristic_e2(g, Defender)
            /\ \A heur \in Heuristics :
                  evaluate(g, Attacker, SearchOptions(0, TRUE, heur))
                      = 0 - evaluate(g, Defender, SearchOptions(0, TRUE, heur))

\* C32 witness: after an accepted action one side's AI is next to an enemy
\* and the other side's is not, the sides differ in material, and the three
\* heuristics are all non-zero and pairwise different for the Attacker
OneAIThreatenedScoresDiffer ==
    /\ success
    /\ \E x \in Coords : /\ board[x].type = "AI"
                         /\ is_engaged_in_combat(Self, x)
    /\ \E x \in Coords : /\ board[x].type = "AI"
                         /\ ~is_engaged_in_combat(Self, x)
    /\ heuristic_e0(Self, Attacker) # 0
    /\ heuristic_e1(Self, Attacker) # 0
    /\ heuristic_e2(Self, Attacker) # 0
    /\ heuristic_e1(Self, Attacker) # heuristic_e0(Self, Attacker)
    /\ heuristic_e2(Self, Attacker) # heuristic_e1(Self, Attacker)

====
